---- MODULE Spec2Model ----
(***************************************************************************)
(* Vose's alias method, as implemented by vose/sampler.pyx (class Sampler) *)
(* and declared in the accompanying .pxd.                                  *)
(*                                                                         *)
(* Numbers.  A weight vector of size n is held in units of 1/(n*Grid):     *)
(* the integer w stands for the real weight w/(n*Grid), so avg = 1./n is   *)
(* the integer Grid.  proba[i] is held as a numerator over Grid, so        *)
(* proba = 1. is the integer Grid.  The table is therefore computed in     *)
(* exact arithmetic.  Engine draws keep their true 31-bit range, and the   *)
(* products and float conversions of fair_die and coin_toss are computed   *)
(* at their machine width.                                                 *)
(***************************************************************************)
EXTENDS Integers, Sequences, FiniteSets, TLC

VARIABLES weights, w0, copy, seed, bits, pc, sampler, loopExit, last, calls

vars == <<weights, w0, copy, seed, bits, pc, sampler, loopExit, last, calls>>

(***************************************************************************)
(* Bounds of the model.                                                    *)
(***************************************************************************)
MaxN == 3          \* sizes of the weight vector: 0..MaxN
MaxW == 3          \* largest weight, in units of 1/(n*Grid)
Grid == 2          \* units per average weight (avg = Grid units)
MaxCalls == 2      \* sample calls per run

Inst == {1, 2}     \* two Sampler objects built from equal arguments

\* Python's None, for seed and for values (no seed and no length is negative)
None == 0 - 1

(***************************************************************************)
(* std::minstd_rand = linear_congruential_engine<uint_fast32_t, 48271, 0,  *)
(* 2147483647>.                                                            *)
(***************************************************************************)
LcgA == 48271
LcgM == 2147483647

\* minstd_rand::max()
EngineMax == LcgM - 1

\* linear_congruential_engine::seed(s): the state is s mod m, or 1 when that is 0
EngineSeed(s) == IF s % LcgM = 0 THEN 1 ELSE s % LcgM

\* one step x -> (a * x) mod m, by Schrage's decomposition so that no
\* intermediate value leaves 31 bits
EngineNext(x) ==
    LET q == LcgM \div LcgA
        r == LcgM % LcgA
        t == LcgA * (x % q) - r * (x \div q)
    IN  IF t < 0 THEN t + LcgM ELSE t

\* the engine state after j calls of generator()
RECURSIVE EngineAfter(_, _)
EngineAfter(x, j) == IF j = 0 THEN x ELSE EngineAfter(EngineNext(x), j - 1)

\* seeds the caller passes; the second makes the second draw equal max()
Seeds == {1, 1922112213}
\* values random_device may return when seed is None
Entropy == {7, 42}

\* width in bits of the product generator() * n, fixed by the engine's
\* result_type (uint_fast32_t: 32 or 64 bits, depending on the platform)
Widths == {32, 64}

(***************************************************************************)
(* Machine arithmetic of fair_die and coin_toss.                           *)
(***************************************************************************)
\* the largest value of 31 bits, 2^31 - 1
IntMax == 2147483647

\* floor(d * n / m), the product taken exactly: q * m + r = d * (n - j)
RECURSIVE MulDivExact(_, _, _, _, _)
MulDivExact(d, m, j, q, r) ==
    IF j = 0 THEN q
    ELSE IF r >= m - d THEN MulDivExact(d, m, j - 1, q + 1, r - (m - d))
         ELSE MulDivExact(d, m, j - 1, q, r + d)

\* (d * n) mod 2^32 as <<bit 31, low 31 bits>>, for a draw d < 2^31
RECURSIVE MulWrap32(_, _, _)
MulWrap32(d, j, x) ==
    IF j = 0 THEN x
    ELSE IF x[2] > IntMax - d
         THEN MulWrap32(d, j - 1, <<1 - x[1], x[2] - (IntMax - d) - 1>>)
         ELSE MulWrap32(d, j - 1, <<x[1], x[2] + d>>)

\* the unsigned 32-bit x divided by m, for 2^30 <= m < 2^31: the quotient is
\* 0, 1, 2 or 3
DivWrap32(x, m) ==
    IF x[1] = 0 THEN (IF x[2] < m THEN 0 ELSE 1)
    ELSE LET low == x[2] + (IntMax - m) + 1    \* x - m, which is below 2^31
         IN  IF low < m THEN 1
             ELSE IF low - m < m THEN 2 ELSE 3

Pow2(e) == 2 ^ e

\* A positive float is [mant, exp] with value mant * 2^exp and
\* 2^23 <= mant < 2^24 (IEEE single precision, 24 significant bits).
MantLo == 8388608
MantHi == 16777216

\* q with remainder r of a division by den, rounded to nearest, ties to even,
\* as the 24-bit significand of a float of exponent e
RoundEven(q, r, den, e) ==
    IF 2 * r > den \/ (2 * r = den /\ q % 2 = 1)
    THEN IF q + 1 = MantHi THEN [mant |-> MantLo, exp |-> e + 1]
         ELSE [mant |-> q + 1, exp |-> e]
    ELSE [mant |-> q, exp |-> e]

\* conversion of the integer d, 1 <= d < 2^31, to float: below 2^24 it is
\* exact, above it keeps the top 24 bits, s being the number of bits dropped
RECURSIVE IntShift(_, _)
IntShift(d, s) == IF d \div Pow2(s - 1) >= MantHi THEN s ELSE IntShift(d, s - 1)
RECURSIVE IntNorm(_, _)
IntNorm(d, e) == IF d >= MantLo THEN [mant |-> d, exp |-> e] ELSE IntNorm(2 * d, e - 1)
IntRound(d, s) == RoundEven(d \div Pow2(s), d % Pow2(s), Pow2(s), s)
FloatOfInt(d) == IF d < MantHi THEN IntNorm(d, 0) ELSE IntRound(d, IntShift(d, 7))

\* conversion of the real num/den, 0 < num/den < 2^24, to float
RECURSIVE RatNorm(_, _, _)
RatNorm(num, den, e) ==
    IF num >= MantLo * den THEN RoundEven(num \div den, num % den, den, e)
    ELSE RatNorm(2 * num, den, e - 1)
FloatOfRat(num, den) ==
    IF num < 2 * den THEN RatNorm(num * MantLo, den, 0 - 23) ELSE RatNorm(num, den, 0)

\* a * b in float when a is a power of two: exact, only the exponent moves
FloatMulPow2(a, b) == [mant |-> b.mant, exp |-> b.exp + a.exp + 23]

FloatLess(a, b) == a.exp < b.exp \/ (a.exp = b.exp /\ a.mant < b.mant)

(***************************************************************************)
(* Sampler.__init__: construction of the alias table.                      *)
(***************************************************************************)
\* weights.size
Size(w) == Cardinality(DOMAIN w)

\* avg = 1. / n, in units of 1/(n*Grid)
Avg == Grid

\* weights[i] >= avg: the index goes to the large worklist
IsLarge(w) == w >= Avg

\* deque operations: a deque is a sequence, front first
PushFront(dq, i) == <<i>> \o dq
Back(dq) == dq[Len(dq)]
PopBack(dq) == SubSeq(dq, 1, Len(dq) - 1)

\* the scaling applied to the donor instead of the small entry
ScaledProbaOfMore(w, less, more) == w[more]

\* proba[less] = weights[less] * n, as a numerator over Grid
ScaledProba(w, less, more) == w[less]

\* the donation without the average taken off
DonateAll(wmore, wless) == wmore + wless

\* weights[more] = weights[more] + weights[less] - avg
Donate(wmore, wless) == wmore + wless - Avg

\* for i in range(n): push i on large or small
RECURSIVE Populate(_, _, _)
Populate(w, i, st) ==
    IF i = Size(w) THEN st
    ELSE Populate(w, i + 1,
             IF IsLarge(w[i])
             THEN [st EXCEPT !.large = PushFront(@, i)]
             ELSE [st EXCEPT !.small = PushFront(@, i)])

\* while not small.empty() and not large.empty(): pair less with more
RECURSIVE PairingLoop(_)
PairingLoop(st) ==
    IF st.small = <<>> \/ st.large = <<>> THEN st
    ELSE LET less == Back(st.small)
             more == Back(st.large)
             small1 == PopBack(st.small)
             large1 == PopBack(st.large)
             wmore == Donate(st.weights[more], st.weights[less])
         IN  PairingLoop(
               [weights |-> [st.weights EXCEPT ![more] = wmore],
                proba |-> [st.proba EXCEPT ![less] = ScaledProba(st.weights, less, more)],
                alias |-> [st.alias EXCEPT ![less] = more],
                small |-> IF IsLarge(wmore) THEN small1 ELSE PushFront(small1, more),
                large |-> IF IsLarge(wmore) THEN PushFront(large1, more) ELSE large1,
                paired |-> st.paired + 1])

\* the two closing loops: every index left on a worklist gets proba 1.
RECURSIVE Drain(_, _)
Drain(dq, proba) ==
    IF dq = <<>> THEN proba
    ELSE Drain(PopBack(dq), [proba EXCEPT ![Back(dq)] = Grid])

\* lines 45-105 on the working buffer w: the state at the exit of the
\* pairing loop, and the finished table
Build(w) ==
    LET st0 == [weights |-> w,
                proba |-> [i \in DOMAIN w |-> 0],
                alias |-> [i \in DOMAIN w |-> 0],
                small |-> <<>>, large |-> <<>>, paired |-> 0]
        ex == PairingLoop(Populate(w, 0, st0))
    IN  [exit |-> ex,
         n |-> Size(w),
         alias |-> ex.alias,
         proba |-> Drain(ex.large, Drain(ex.small, ex.proba))]

\* construction that works on the caller's buffer whatever copy says
CallerBufferInPlace(cp, before, done) == done

\* if copy: weights = weights.copy() -- what the caller's buffer holds after
\* construction worked on buffer contents `done`
CallerBuffer(cp, before, done) == IF cp THEN before ELSE done

\* seeding from random_device whatever seed says
SeedEngineFromEntropy(sd, e) == EngineSeed(e)

\* minstd_rand(r()) or minstd_rand(seed); e is the value random_device gives
SeedEngine(sd, e) == IF sd = None THEN EngineSeed(e) ELSE EngineSeed(sd)

(***************************************************************************)
(* coin_toss, fair_die, sample_1, sample_k.                                *)
(***************************************************************************)
\* self.generator() * n / (self.maxi + 1) on the draw d, the product held in
\* `width` bits
fair_die(d, n, maxi, width) ==
    IF width = 32 THEN DivWrap32(MulWrap32(d, n, <<0, 0>>), maxi + 1)
    ELSE MulDivExact(d, maxi + 1, n, 0, 0)

\* self.generator() < self.maxi * p on the draw d, p a float parameter given
\* as the numerator p over Grid; both sides of < are floats.  For p <= 0 the
\* right side is <= 0 and no draw is below it.
coin_toss(d, p, maxi) ==
    IF p <= 0 THEN FALSE
    ELSE FloatLess(FloatOfInt(d),
                   FloatMulPow2(FloatOfInt(maxi), FloatOfRat(p, Grid)))

\* sample_1 that tosses no coin for a column of probability 1
sample_1SkipCoin(s, g, width) ==
    LET d1 == EngineNext(g)
        col == fair_die(d1, s.n, s.maxi, width)
        d2 == EngineNext(d1)
        heads == coin_toss(d2, s.proba[col], s.maxi)
    IN  IF s.proba[col] = Grid
        THEN [generator |-> d1, die |-> d1, coin |-> d1, col |-> col,
              heads |-> TRUE, idx |-> col]
        ELSE [generator |-> d2, die |-> d1, coin |-> d2, col |-> col,
              heads |-> heads, idx |-> IF heads THEN col ELSE s.alias[col]]

\* sample_1 on a sampler with n >= 1 whose engine is in state g: the first
\* draw rolls the die, the second tosses the coin
sample_1(s, g, width) ==
    LET d1 == EngineNext(g)
        col == fair_die(d1, s.n, s.maxi, width)
        d2 == EngineNext(d1)
        heads == coin_toss(d2, s.proba[col], s.maxi)
    IN  [generator |-> d2, die |-> d1, coin |-> d2, col |-> col, heads |-> heads,
         idx |-> IF heads THEN col ELSE s.alias[col]]

\* for i in range(k): samples[i] = self.sample_1()
RECURSIVE sample_k(_, _, _, _, _)
sample_k(s, g, width, k, acc) ==
    IF k = 0 THEN acc
    ELSE LET r == sample_1(s, g, width)
         IN  sample_k(s, r.generator, width, k - 1, Append(acc, r))

(***************************************************************************)
(* Sampler.sample(k, values).                                              *)
(***************************************************************************)
\* the values buffers a caller passes: length vlen, position i holds ValueAt(i)
ValueAt(i) == 100 + i

\* what a read outside a buffer may deliver (boundscheck=False)
Garbage == {0 - 7, 777}

\* the call sample(k, values) on sampler s, up to what its reads outside a
\* buffer deliver; vlen = None when values is None.  inside[j] tells whether
\* the j-th sample read only inside the table and the values buffer.
SampleCall(s, width, k, vlen) ==
    LET run == IF s.n = 0 THEN <<>> ELSE sample_k(s, s.generator, width, k, <<>>)
        inside == [j \in 1..k |-> s.n > 0 /\ (vlen = None \/ run[j].idx < vlen)]
        \* k == 1 with values: values[self.sample_1()], a checked Python index
        raises == s.n > 0 /\ vlen # None /\ k = 1 /\ ~inside[1]
    IN  [k |-> k, vlen |-> vlen, run |-> run, inside |-> inside,
         \* with an empty table the two draws of each sample are still made
         generator |-> IF s.n = 0 THEN EngineAfter(s.generator, 2 * k)
                       ELSE run[k].generator,
         status |-> IF raises THEN "IndexError" ELSE "ok",
         oob |-> ~raises /\ \E j \in 1..k : ~inside[j]]

\* what the call returns when its reads outside a buffer deliver junk
Returned(c, junk) ==
    IF c.status = "IndexError" THEN <<>>
    ELSE [j \in 1..c.k |->
            IF ~c.inside[j] THEN junk
            ELSE IF c.vlen = None THEN c.run[j].idx ELSE ValueAt(c.run[j].idx)]

JunkOf(c) == IF c.oob THEN Garbage ELSE {0}

NoSampler == [n |-> 0, alias |-> <<>>, proba |-> <<>>, generator |-> 1, maxi |-> 0]
NoCall == [k |-> 0, vlen |-> None, run |-> <<>>, inside |-> <<>>, generator |-> 1,
           status |-> "none", oob |-> FALSE, out |-> <<>>]
NoExit == [weights |-> <<>>, proba |-> <<>>, alias |-> <<>>,
           small |-> <<>>, large |-> <<>>, paired |-> 0]

\* the arguments of Sampler(weights, copy, seed): a weight vector of size
\* 0..MaxN with entries in ws, copy in cps, seed in sds
InitArgs(ws, cps, sds) ==
    /\ \E n \in 0..MaxN : w0 \in [0..(n - 1) -> ws]
    /\ weights = w0
    /\ copy \in cps
    /\ seed \in sds
    /\ bits \in Widths
    /\ pc = "new"
    /\ sampler = [i \in Inst |-> NoSampler]
    /\ loopExit = NoExit
    /\ last = [i \in Inst |-> NoCall]
    /\ calls = 0

\* any weights, the negative ones included, any copy, any seed
InitBuild == InitArgs((0 - 1)..MaxW, BOOLEAN, Seeds \cup {None})

\* any weights, copy left at its default, an explicit seed
Init == InitArgs((0 - 1)..MaxW, {TRUE}, Seeds)

\* Sampler(weights, copy, seed), once for each of the two objects
Construct ==
    /\ pc = "new"
    /\ \E e \in [Inst -> Entropy] :
         LET b == Build(weights)
         IN  /\ sampler' = [i \in Inst |->
                              [n |-> b.n, alias |-> b.alias, proba |-> b.proba,
                               generator |-> SeedEngine(seed, e[i]),
                               maxi |-> EngineMax]]
             /\ weights' = CallerBuffer(copy, weights, b.exit.weights)
             /\ loopExit' = b.exit
    /\ pc' = "ready"
    /\ UNCHANGED <<w0, copy, seed, bits, last, calls>>

\* sample(k, values) on both objects; the call returns or raises
Sample(k, vlen) ==
    /\ pc = "ready"
    /\ calls < MaxCalls
    /\ \E c \in {[i \in Inst |-> SampleCall(sampler[i], bits, k, vlen)]} :
       \E junk \in {f \in [Inst -> Garbage \cup {0}] : \A i \in Inst : f[i] \in JunkOf(c[i])} :
         /\ last' = [i \in Inst |->
                       [k |-> k, vlen |-> vlen, run |-> c[i].run,
                        inside |-> c[i].inside, generator |-> c[i].generator,
                        status |-> c[i].status, oob |-> c[i].oob,
                        out |-> Returned(c[i], junk[i])]]
         /\ sampler' = [i \in Inst |->
                          [sampler[i] EXCEPT !.generator = c[i].generator]]
    /\ calls' = calls + 1
    /\ UNCHANGED <<weights, w0, copy, seed, bits, pc, loopExit>>

\* sample(k, values) reads outside a buffer and the process dies of it
SampleCrash(k, vlen) ==
    /\ pc = "ready"
    /\ calls < MaxCalls
    /\ \E i \in Inst : SampleCall(sampler[i], bits, k, vlen).oob
    /\ pc' = "crashed"
    /\ UNCHANGED <<weights, w0, copy, seed, bits, sampler, loopExit, last, calls>>

\* a values buffer is absent, one short of the largest table, or as long
ValueLengths == {None, MaxN - 1, MaxN}

\* k == 1 returns one sample, any other k goes through sample_k or
\* sample_k_from
SampleSizes == {1, 2}

Next ==
    \/ Construct
    \/ \E k \in SampleSizes, vlen \in ValueLengths : Sample(k, vlen)
    \/ \E k \in SampleSizes, vlen \in ValueLengths : SampleCrash(k, vlen)

\* construction followed by sample calls
Spec == Init /\ [][Next]_vars

\* construction alone, over every argument
SpecBuild == InitBuild /\ [][Construct]_vars

(***************************************************************************)
(* Properties.                                                             *)
(***************************************************************************)
RECURSIVE SumTo(_, _)
SumTo(w, i) == IF i = 0 THEN 0 ELSE w[i - 1] + SumTo(w, i - 1)
\* the sum of a weight vector
Sum(w) == SumTo(w, Size(w))

NonNegative(w) == \A i \in DOMAIN w : w[i] >= 0

Built == pc # "new"

\* n * Grid * P(draw = k): the column's own share plus what its aliases leave
Mass(s, k) ==
    s.proba[k]
    + SumTo([j \in DOMAIN s.alias |->
               IF s.alias[j] = k THEN Grid - s.proba[j] ELSE 0], s.n)

\* C1: for every vector of n >= 1 weights >= 0 with sum W > 0, whether or not
\* W = 1, the built table gives every index k the probability w[k] / W:
\* proba[k]/n + sum over {j : alias[j] = k} of (1 - proba[j])/n = w[k]/W.
C1_MassConservation ==
    (Built /\ Size(w0) >= 1 /\ NonNegative(w0) /\ Sum(w0) > 0)
    => \A i \in Inst : \A k \in DOMAIN w0 :
         Sum(w0) * Mass(sampler[i], k) = w0[k] * Size(w0) * Grid

\* C2: construction never completes on an empty weight vector or on one that
\* holds a negative weight.
C2_InvalidInputRejected ==
    Built => Size(w0) >= 1 /\ NonNegative(w0)

\* C8: with copy=True the caller's weight vector holds after construction
\* what it held before; it differs only when copy=False.
C8_CopyKeepsCallerWeights ==
    copy => weights = w0

\* C8 witness: construction with copy=True whose pairing loop rewrote the
\* working buffer.
C8_Witness ==
    Built /\ copy /\ loopExit.paired >= 1 /\ loopExit.weights # w0

\* C10: for n >= 1 weights >= 0 summing to exactly 1 the pairing loop exits
\* with small empty and every index left in large at weight 1/n, and the
\* table gives every index k the probability w[k].
C10_ExactPairing ==
    (Built /\ Size(w0) >= 1 /\ NonNegative(w0) /\ Sum(w0) = Size(w0) * Grid)
    => /\ loopExit.small = <<>>
       /\ \A j \in 1..Len(loopExit.large) :
            loopExit.weights[loopExit.large[j]] = Avg
       /\ \A i \in Inst : \A k \in DOMAIN w0 : Mass(sampler[i], k) = w0[k]

\* C10 witness: a normalised vector whose pairing loop ran at least twice and
\* left an index in large.
C10_Witness ==
    /\ Built /\ Size(w0) >= 1 /\ NonNegative(w0) /\ Sum(w0) = Size(w0) * Grid
    /\ loopExit.paired >= 2
    /\ loopExit.large # <<>>

\* some sample call has returned or raised, on a sampler built from n >= 1
\* weights >= 0
Called == pc = "ready" /\ calls >= 1 /\ Size(w0) >= 1 /\ NonNegative(w0)

\* C3: a sample call whose values buffer is shorter than n raises, whatever
\* the indices drawn, and reads no position outside the buffer (on a sampler
\* built from n >= 1 weights >= 0).
C3_ShortValuesRaise ==
    \A i \in Inst :
      (Called /\ last[i].vlen # None /\ last[i].vlen < sampler[i].n)
      => last[i].status # "ok" /\ ~last[i].oob

\* C4: on a sampler built from n >= 1 weights >= 0, every die roll of
\* sample_1 is floor(d * n / (MAX + 1)) for its draw d,
\* the product d * n taken without wrapping, hence a column in [0, n-1].
C4_FairDieExact ==
    Called => \A i \in Inst : \A j \in DOMAIN last[i].run :
      /\ last[i].run[j].col =
          MulDivExact(last[i].run[j].die, EngineMax + 1, sampler[i].n, 0, 0)
      /\ last[i].run[j].col \in 0..(sampler[i].n - 1)

\* C5: on a sampler built from n >= 1 weights >= 0, for every draw d of the
\* engine, d = MAX included, the coin toss of a
\* column of probability 0 is false and that of a column of probability 1
\* is true.
C5_CoinTossBoundary ==
    Called => \A i \in Inst : \A j \in DOMAIN last[i].run :
      LET p == sampler[i].proba[last[i].run[j].col]
      IN  /\ p = 0 => ~last[i].run[j].heads
          /\ p = Grid => last[i].run[j].heads

C7_TwoDrawsPerSample ==
    [][(pc = "ready" /\ pc' = "ready" /\ sampler[1].n >= 1)
       => \A i \in Inst :
            LET s == sampler[i]
                k == last'[i].k
            IN  /\ sampler'[i].generator = EngineAfter(s.generator, 2 * k)
                /\ Len(last'[i].run) = k
                /\ \A j \in 1..k :
                     LET d1 == EngineAfter(s.generator, 2 * j - 1)
                         d2 == EngineAfter(s.generator, 2 * j)
                         col == fair_die(d1, s.n, s.maxi, bits)
                     IN  last'[i].run[j].idx =
                           IF coin_toss(d2, s.proba[col], s.maxi)
                           THEN col ELSE s.alias[col]]_vars

\* C7 witness: a call with k = 2 whose second sample fell on a column of
\* probability 1.
C7_Witness ==
    /\ Called /\ last[1].k = 2
    /\ sampler[1].proba[last[1].run[2].col] = Grid

\* C9: a table built from n >= 1 weights >= 0, normalised or not, has every
\* proba[i] in [0, 1] and every alias[i] in [0, n), and no sample call
\* changes the table.
C9_TableWellFormed ==
    /\ []((Built /\ Size(w0) >= 1 /\ NonNegative(w0))
          => \A i \in Inst :
               /\ sampler[i].n = Size(w0)
               /\ DOMAIN sampler[i].proba = 0..(sampler[i].n - 1)
               /\ DOMAIN sampler[i].alias = 0..(sampler[i].n - 1)
               /\ \A c \in 0..(sampler[i].n - 1) :
                    /\ sampler[i].proba[c] \in 0..Grid
                    /\ sampler[i].alias[c] \in 0..(sampler[i].n - 1))
    /\ [][Built => \A i \in Inst :
                     /\ sampler'[i].n = sampler[i].n
                     /\ sampler'[i].proba = sampler[i].proba
                     /\ sampler'[i].alias = sampler[i].alias]_vars

\* C9 witness: after the last call of a run on a table built from weights
\* that do not sum to 1 and whose pairing loop ran.
C9_Witness ==
    /\ calls = MaxCalls /\ Size(w0) >= 2 /\ NonNegative(w0)
    /\ Sum(w0) # Size(w0) * Grid
    /\ loopExit.paired >= 1
    /\ \E c \in DOMAIN sampler[1].proba :
         sampler[1].proba[c] > 0 /\ sampler[1].proba[c] < Grid

====
